---- MODULE Spec2Model ----
(***************************************************************************)
(* CoordinatorAgent: DAG construction (buildDAG) and the bounded           *)
(* concurrent executor (executeParallel).                                  *)
(*                                                                         *)
(* executeParallel is an async function on a JavaScript event loop.  The   *)
(* model keeps the job queue of promise reactions (microtasks) explicit:   *)
(* a reaction is appended when its promise settles and reactions run one   *)
(* at a time in FIFO order; the control loop's continuation runs from the  *)
(* setTimeout task, which starts only when the job queue is empty.         *)
(***************************************************************************)
EXTENDS Integers, Sequences, FiniteSets, TLC

\* ------------------------------------------------------------------ bounds
\* Longest dependency list of a task in the batches explored.
MaxDeps == 2
\* Largest maxConcurrency explored (1..MaxConc).
MaxConc == 2

\* Largest estimatedHours explored (0..MaxHours).
MaxHours == 3

\* Task identifiers of the batch, in list order, and one identifier that
\* names no task of the batch (a dangling dependency).
TaskOrder == <<"A", "B", "C">>
TaskIds == {TaskOrder[i] : i \in 1..Len(TaskOrder)}
Dangling == "X"
DepOrder == TaskOrder \o <<Dangling>>

\* assignedAgent is optional: NoAgent stands for undefined.
NoAgent == "undefined"
\* The roles with a registered agent (the keys of the agents map).
Registered == {"codegen", "test"}

VARIABLES
  tasks,           \* the batch handed to buildDAG / executeParallel
  maxConcurrency,  \* executeParallel's third parameter
  queue,           \* executeParallel: const queue = [...tasks]
  inProgress,      \* executeParallel: Set of task ids
  completed,       \* executeParallel: Set of task ids
  results,         \* executeParallel: AgentResult[]
  pc,              \* "loop": the while loop is at its top (first entry or
                   \*  after the 100 ms await); "done": the promise settled
  outcome,         \* "running" | "returned" | "DeadlockError"
  delivered,       \* what the caller of executeParallel receives
  microtasks,      \* pending promise reactions, FIFO
  running,         \* ids whose agent.execute(task) promise is unsettled
  dispatched,      \* history: ids in the order executeTask was called
  settled,         \* history: how each agent.execute promise settled
  dag,             \* the value buildDAG returned or the error it threw
  calls,           \* history: how often the function under study was called
  previous,        \* history: what its call before the last one returned
  critical,        \* identifyCriticalPath: its return value and its locals
  assignments,     \* the value assignAgents returned
  given            \* history: the task list as it was handed over

vars == <<tasks, maxConcurrency, queue, inProgress, completed, results, pc,
          outcome, delivered, microtasks, running, dispatched, settled, dag,
          calls, previous, critical, assignments, given>>

\* ------------------------------------------------------------ Task batches
Task(id, deps, agent) ==
  [id |-> id, dependencies |-> deps, assignedAgent |-> agent,
   estimatedHours |-> 1, priority |-> "P2-Medium", labels |-> <<>>]

\* The subsequence of DepOrder at the positions in S, ascending.
RECURSIVE PickAscending(_, _)
PickAscending(S, i) ==
  IF i > Len(DepOrder) THEN <<>>
  ELSE (IF i \in S THEN <<DepOrder[i]>> ELSE <<>>) \o PickAscending(S, i + 1)

\* Dependency lists without repetition, one per set of at most MaxDeps ids
\* (executeParallel reads a list only through every(), so order is moot).
DepSets ==
  {PickAscending(S, 1) :
     S \in {T \in SUBSET (1..Len(DepOrder)) : Cardinality(T) <= MaxDeps}}

SeqToSet(s) == {s[i] : i \in 1..Len(s)}

TaskById(ts, id) == ts[CHOOSE i \in 1..Len(ts) : ts[i].id = id]

Ids(ts) == {ts[i].id : i \in 1..Len(ts)}

\* The value of the variable dag before buildDAG has been called.
NoDAG ==
  [status |-> "none", error |-> "none", at |-> "none", nodes |-> <<>>,
   order |-> <<>>, levels |-> <<>>, criticalPath |-> <<>>]

\* The value of the variable critical before identifyCriticalPath has been
\* called.
NoPath == [status |-> "none", path |-> <<>>, earliestStart |-> <<>>]

\* ------------------------------------------------ executeParallel: helpers
\* const agentType = task.assignedAgent ?? 'codegen'
AgentType(task) ==
  IF task.assignedAgent = NoAgent THEN "codegen" ELSE task.assignedAgent

\* agents.get(agentType) is defined
HasAgent(task) == AgentType(task) \in Registered

\* Mutant: only the first declared dependency is looked at.
DepsCompletedFirstOnly(task, comp) ==
  Len(task.dependencies) = 0 \/ task.dependencies[1] \in comp

\* task.dependencies.every((depId) => completed.has(depId))
DepsCompleted(task, comp) ==
  \A i \in 1..Len(task.dependencies) : task.dependencies[i] \in comp

\* queue.filter(...): the ready tasks, in queue order
ReadyTasks(q, comp) ==
  LET ready(t) == DepsCompleted(t, comp) IN SelectSeq(q, ready)

\* Array.prototype.slice(0, end): a negative end counts from the back
Slice(s, end) ==
  LET e == IF end < 0 THEN (IF Len(s) + end < 0 THEN 0 ELSE Len(s) + end)
           ELSE (IF end > Len(s) THEN Len(s) ELSE end)
  IN SubSeq(s, 1, e)

\* Mutant: the slice forgets the tasks already in flight.
TasksToExecuteIgnoringInFlight(q, comp, inprog, maxc) ==
  Slice(ReadyTasks(q, comp), maxc)

\* readyTasks.slice(0, maxConcurrency - inProgress.size)
TasksToExecute(q, comp, inprog, maxc) ==
  Slice(ReadyTasks(q, comp), maxc - Cardinality(inprog))

\* Mutant: the head of the queue is removed, whichever task is dispatched
\* (splice(0, 1)).
RemoveHeadOfQueue(q, task) == IF q = <<>> THEN q ELSE Tail(q)

\* queue.indexOf(task); splice(index, 1) when found
RemoveFromQueue(q, task) ==
  IF \E i \in 1..Len(q) : q[i] = task
  THEN LET idx == CHOOSE i \in 1..Len(q) :
                    q[i] = task /\ \A j \in 1..(i - 1) : q[j] # task
       IN SubSeq(q, 1, idx - 1) \o SubSeq(q, idx + 1, Len(q))
  ELSE q

Job(kind, id, arg) == [kind |-> kind, id |-> id, arg |-> arg]

\* The AgentResult an agent resolves with (how = "success" | "failure").
AgentResult(task, how) ==
  [success |-> (how = "success"), taskId |-> task.id,
   agentName |-> AgentType(task),
   error |-> IF how = "success" THEN "none" ELSE "ExecutionFailure"]

\* The AgentResult the .catch handler builds from a rejection.
CaughtResult(task, message) ==
  [success |-> FALSE, taskId |-> task.id,
   agentName |-> IF task.assignedAgent = NoAgent THEN "unknown"
                 ELSE task.assignedAgent,
   error |-> message]

\* The synchronous part of one pass of `for (const task of tasksToExecute)`:
\* the splice, then executeTask(task) up to its first await, then the
\* registration of .then().catch().  A missing agent rejects the promise
\* executeTask returns, before inProgress.add.
ExecuteTaskCall(st, task) ==
  LET q == RemoveFromQueue(st.queue, task) IN
  IF ~HasAgent(task)
  THEN [st EXCEPT !.queue = q,
                  !.microtasks = Append(@, Job("rejected", task.id,
                                                "Agent not found")),
                  !.dispatched = Append(@, task.id)]
  ELSE [st EXCEPT !.queue = q,
                  !.inProgress = @ \cup {task.id},
                  !.running = @ \cup {task.id},
                  !.dispatched = Append(@, task.id)]

RECURSIVE DispatchAll(_, _)
DispatchAll(st, ts) ==
  IF ts = <<>> THEN st
  ELSE DispatchAll(ExecuteTaskCall(st, Head(ts)), Tail(ts))

\* -------------------------------------------------- executeParallel: steps
\* Mutant: the loop goes on only while the queue is not empty.
LoopWhileQueued == Len(queue) > 0

\* while (queue.length > 0 || inProgress.size > 0)
LoopCondition == Len(queue) > 0 \/ inProgress # {}

ToExecute == TasksToExecute(queue, completed, inProgress, maxConcurrency)

\* Mutant: the check for blocked tasks only sees an empty queue.
NothingToDoOnlyWhenQueueEmpty ==
  ToExecute = <<>> /\ inProgress = {} /\ Len(queue) = 0

\* Mutant: the check for blocked tasks does not look at the in-flight set.
NothingToExecute == ToExecute = <<>>

\* if (tasksToExecute.length === 0 && inProgress.size === 0)
NothingToDo == ToExecute = <<>> /\ inProgress = {}

\* The loop's continuation runs from the timer task (or from the call
\* itself, the first time): no promise reaction is pending then.
LoopTurn == pc = "loop" /\ microtasks = <<>>

\* The loop ends (condition false, or the break) and results is returned.
LoopReturn ==
  /\ LoopTurn
  /\ \/ ~LoopCondition
     \/ LoopCondition /\ NothingToDo /\ Len(queue) = 0
  /\ pc' = "done"
  /\ outcome' = "returned"
  /\ delivered' = results
  /\ UNCHANGED <<tasks, maxConcurrency, queue, inProgress, completed, results,
                 microtasks, running, dispatched, settled, dag,
                 calls, previous, critical, assignments, given>>

\* throw new Error('Circular dependency or blocked tasks detected'): the
\* promise rejects with the Error alone; results stays a local.
LoopDeadlock ==
  /\ LoopTurn
  /\ LoopCondition
  /\ NothingToDo /\ Len(queue) > 0
  /\ pc' = "done"
  /\ outcome' = "DeadlockError"
  /\ delivered' = <<>>
  /\ UNCHANGED <<tasks, maxConcurrency, queue, inProgress, completed, results,
                 microtasks, running, dispatched, settled, dag,
                 calls, previous, critical, assignments, given>>

\* One pass of the loop body that reaches the 100 ms await.
LoopDispatch ==
  /\ LoopTurn
  /\ LoopCondition
  /\ ~NothingToDo
  /\ LET st == DispatchAll([queue |-> queue, inProgress |-> inProgress,
                            running |-> running, microtasks |-> microtasks,
                            dispatched |-> dispatched], ToExecute)
     IN /\ queue' = st.queue
        /\ inProgress' = st.inProgress
        /\ running' = st.running
        /\ microtasks' = st.microtasks
        /\ dispatched' = st.dispatched
  /\ UNCHANGED <<tasks, maxConcurrency, completed, results, pc, outcome,
                 delivered, settled, dag,
                 calls, previous, critical, assignments, given>>

LoopIteration == LoopReturn \/ LoopDeadlock \/ LoopDispatch

\* The promise agent.execute(task) returned settles: it resolves with a
\* result (success true or false) or rejects.  The reaction that resumes
\* executeTask is queued.
AgentSettles(id, how) ==
  /\ id \in running
  /\ running' = running \ {id}
  /\ microtasks' = Append(microtasks, Job("resume", id, how))
  /\ settled' = [settled EXCEPT ![id] = how]
  /\ UNCHANGED <<tasks, maxConcurrency, queue, inProgress, completed, results,
                 pc, outcome, delivered, dispatched, dag,
                 calls, previous, critical, assignments, given>>

\* Mutant: only a successful result marks the task completed.
ResumeResolvedCompletesOnSuccess ==
  /\ microtasks # <<>>
  /\ Head(microtasks).kind = "resume"
  /\ Head(microtasks).arg \in {"success", "failure"}
  /\ LET j == Head(microtasks) IN
       /\ completed' = IF j.arg = "success" THEN completed \cup {j.id}
                       ELSE completed
       /\ inProgress' = inProgress \ {j.id}
       /\ microtasks' = Append(Tail(microtasks), Job("fulfilled", j.id, j.arg))
  /\ UNCHANGED <<tasks, maxConcurrency, queue, results, pc, outcome,
                 delivered, running, dispatched, settled, dag,
                 calls, previous, critical, assignments, given>>

\* Mutant: the move is left half-done, completed.add without
\* inProgress.delete.
ResumeResolvedHalfDone ==
  /\ microtasks # <<>>
  /\ Head(microtasks).kind = "resume"
  /\ Head(microtasks).arg \in {"success", "failure"}
  /\ LET j == Head(microtasks) IN
       /\ completed' = completed \cup {j.id}
       /\ microtasks' = Append(Tail(microtasks), Job("fulfilled", j.id, j.arg))
  /\ UNCHANGED <<tasks, maxConcurrency, queue, inProgress, results, pc,
                 outcome, delivered, running, dispatched, settled, dag,
                 calls, previous, critical, assignments, given>>

\* executeTask resumes after `await agent.execute(task)` with a result:
\* completed.add, inProgress.delete, return result.
ResumeResolved ==
  /\ microtasks # <<>>
  /\ Head(microtasks).kind = "resume"
  /\ Head(microtasks).arg \in {"success", "failure"}
  /\ LET j == Head(microtasks) IN
       /\ completed' = completed \cup {j.id}
       /\ inProgress' = inProgress \ {j.id}
       /\ microtasks' = Append(Tail(microtasks), Job("fulfilled", j.id, j.arg))
  /\ UNCHANGED <<tasks, maxConcurrency, queue, results, pc, outcome,
                 delivered, running, dispatched, settled, dag,
                 calls, previous, critical, assignments, given>>

\* Mutant: the catch block also marks the task completed.
ResumeRejectedMarksCompleted ==
  /\ microtasks # <<>>
  /\ Head(microtasks).kind = "resume"
  /\ Head(microtasks).arg = "raise"
  /\ LET j == Head(microtasks) IN
       /\ completed' = completed \cup {j.id}
       /\ inProgress' = inProgress \ {j.id}
       /\ microtasks' = Append(Tail(microtasks),
                               Job("rejected", j.id, "ExecutorRaised"))
  /\ UNCHANGED <<tasks, maxConcurrency, queue, results, pc,
                 outcome, delivered, running, dispatched, settled, dag,
                 calls, previous, critical, assignments, given>>

\* Mutant: the catch block also cancels every other task in flight.
ResumeRejectedCancelsSiblings ==
  /\ microtasks # <<>>
  /\ Head(microtasks).kind = "resume"
  /\ Head(microtasks).arg = "raise"
  /\ LET j == Head(microtasks) IN
       /\ inProgress' = {}
       /\ running' = {}
       /\ microtasks' = Append(Tail(microtasks),
                               Job("rejected", j.id, "ExecutorRaised"))
  /\ UNCHANGED <<tasks, maxConcurrency, queue, completed, results, pc,
                 outcome, delivered, dispatched, settled, dag,
                 calls, previous, critical, assignments, given>>

\* executeTask resumes in its catch block: inProgress.delete, throw error.
ResumeRejected ==
  /\ microtasks # <<>>
  /\ Head(microtasks).kind = "resume"
  /\ Head(microtasks).arg = "raise"
  /\ LET j == Head(microtasks) IN
       /\ inProgress' = inProgress \ {j.id}
       /\ microtasks' = Append(Tail(microtasks),
                               Job("rejected", j.id, "ExecutorRaised"))
  /\ UNCHANGED <<tasks, maxConcurrency, queue, completed, results, pc,
                 outcome, delivered, running, dispatched, settled, dag,
                 calls, previous, critical, assignments, given>>

\* .then((result) => results.push(result))
ThenPush ==
  /\ microtasks # <<>>
  /\ Head(microtasks).kind = "fulfilled"
  /\ LET j == Head(microtasks) IN
       /\ results' = Append(results, AgentResult(TaskById(tasks, j.id), j.arg))
       /\ microtasks' = Tail(microtasks)
  /\ UNCHANGED <<tasks, maxConcurrency, queue, inProgress, completed, pc,
                 outcome, delivered, running, dispatched, settled, dag,
                 calls, previous, critical, assignments, given>>

\* Mutant: the chain has no .catch, a rejection is dropped.
ThenDropRejection ==
  /\ microtasks # <<>>
  /\ Head(microtasks).kind = "rejected"
  /\ microtasks' = Tail(microtasks)
  /\ UNCHANGED <<tasks, maxConcurrency, queue, inProgress, completed, results,
                 pc, outcome, delivered, running, dispatched, settled, dag,
                 calls, previous, critical, assignments, given>>

\* A rejection passes through .then(), which has no rejection handler: the
\* promise .then() returned rejects, and the .catch reaction is queued.
ThenPassRejection ==
  /\ microtasks # <<>>
  /\ Head(microtasks).kind = "rejected"
  /\ LET j == Head(microtasks) IN
       microtasks' = Append(Tail(microtasks), Job("catch", j.id, j.arg))
  /\ UNCHANGED <<tasks, maxConcurrency, queue, inProgress, completed, results,
                 pc, outcome, delivered, running, dispatched, settled, dag,
                 calls, previous, critical, assignments, given>>

\* .catch((error) => results.push({ success: false, ... }))
CatchPush ==
  /\ microtasks # <<>>
  /\ Head(microtasks).kind = "catch"
  /\ LET j == Head(microtasks) IN
       /\ results' = Append(results, CaughtResult(TaskById(tasks, j.id), j.arg))
       /\ microtasks' = Tail(microtasks)
  /\ UNCHANGED <<tasks, maxConcurrency, queue, inProgress, completed, pc,
                 outcome, delivered, running, dispatched, settled, dag,
                 calls, previous, critical, assignments, given>>

RunMicrotask ==
  ResumeResolved \/ ResumeRejected \/ ThenPush \/ ThenPassRejection \/ CatchPush

\* -------------------------------------------------- executeParallel: spec
AgentChoices == {NoAgent, "deploy"}

ExecBatches ==
  {[i \in 1..Len(TaskOrder) |-> Task(TaskOrder[i], d[i], a[i])] :
     d \in [1..Len(TaskOrder) -> DepSets],
     a \in [1..Len(TaskOrder) -> AgentChoices]}

\* The state when the while loop is first reached (lines 447-450 done).
Init ==
  /\ tasks \in ExecBatches
  /\ maxConcurrency \in 1..MaxConc
  /\ queue = tasks
  /\ inProgress = {}
  /\ completed = {}
  /\ results = <<>>
  /\ pc = "loop"
  /\ outcome = "running"
  /\ delivered = <<>>
  /\ microtasks = <<>>
  /\ running = {}
  /\ dispatched = <<>>
  /\ settled = [id \in TaskIds |-> "pending"]
  /\ dag = NoDAG
  /\ calls = 0
  /\ previous = NoDAG
  /\ critical = NoPath
  /\ assignments = <<>>
  /\ given = tasks

Settle == \E id \in TaskIds, how \in {"success", "failure", "raise"} :
            AgentSettles(id, how)

Next == LoopIteration \/ Settle \/ RunMicrotask

Spec == Init /\ [][Next]_vars

\* ---------------------------------------------------------------- buildDAG
\* for (const task of tasks) nodes.set(task.id, {...}): a Map keeps its keys
\* in insertion order, which for distinct ids is the order of the list.
NodeOrder(ts) == [i \in 1..Len(ts) |-> ts[i].id]

CreateNodes(ts) ==
  [id \in Ids(ts) |->
     [task |-> TaskById(ts, id),
      dependencies |-> TaskById(ts, id).dependencies,
      dependents |-> <<>>, level |-> 0]]

\* Mutant: a dependent is pushed only if it is not in the list yet.
RECURSIVE PushDependentsOnce(_, _, _)
PushDependentsOnce(nodes, nodeId, deps) ==
  IF deps = <<>> THEN nodes
  ELSE LET depId == Head(deps) IN
       PushDependentsOnce(
         IF depId \in DOMAIN nodes
              /\ \A i \in 1..Len(nodes[depId].dependents) :
                   nodes[depId].dependents[i] # nodeId
         THEN [nodes EXCEPT ![depId].dependents = Append(@, nodeId)]
         ELSE nodes,
         nodeId, Tail(deps))

\* for (const depId of node.dependencies): push nodeId onto the dependents
\* of each dependency that is a node; an id that is none is skipped.
RECURSIVE PushDependents(_, _, _)
PushDependents(nodes, nodeId, deps) ==
  IF deps = <<>> THEN nodes
  ELSE LET depId == Head(deps) IN
       PushDependents(
         IF depId \in DOMAIN nodes
         THEN [nodes EXCEPT ![depId].dependents = Append(@, nodeId)]
         ELSE nodes,
         nodeId, Tail(deps))

\* for (const [nodeId, node] of nodes)
RECURSIVE LinkNodes(_, _)
LinkNodes(nodes, order) ==
  IF order = <<>> THEN nodes
  ELSE LinkNodes(
         PushDependents(nodes, Head(order), nodes[Head(order)].dependencies),
         Tail(order))

\* if (!levels[node.level]) levels[node.level] = []; levels[...].push(node).
\* A level is only ever written one past the end at most: the groups that
\* would be array holes are padded with empty groups.
RECURSIVE PushLevel(_, _, _)
PushLevel(levels, level, nodeId) ==
  IF Len(levels) < level + 1
  THEN PushLevel(Append(levels, <<>>), level, nodeId)
  ELSE [levels EXCEPT ![level + 1] = Append(@, nodeId)]

\* Mutant: the level of the dependency visited last wins.
LastLevel(a, b) == b

\* Math.max(maxDepLevel, visit(depId))
MathMax(a, b) == IF a >= b THEN a ELSE b

\* Mutant: a node counts as visited as soon as the visit enters it.
EnterMarksVisited(st, nodeId) ==
  [st EXCEPT !.inProgress = @ \cup {nodeId}, !.visited = @ \cup {nodeId}]

\* inProgress.add(nodeId)
Enter(st, nodeId) == [st EXCEPT !.inProgress = @ \cup {nodeId}]

\* visit(nodeId): st carries the closure's captured state (nodes, visited,
\* inProgress, levels), the value returned (ret) and the error thrown.
RECURSIVE Visit(_, _)
RECURSIVE VisitDeps(_, _, _)
Visit(st, nodeId) ==
  IF nodeId \in st.visited
  THEN [st EXCEPT !.ret = st.nodes[nodeId].level]
  ELSE IF nodeId \in st.inProgress
  THEN [st EXCEPT !.error = "CircularDependency", !.at = nodeId]
  ELSE LET s1 == Enter(st, nodeId) IN
       \* const node = nodes.get(nodeId)!  -- undefined for an id that is no
       \* node, and reading node.dependencies then throws a TypeError
       IF nodeId \notin DOMAIN s1.nodes
       THEN [s1 EXCEPT !.error = "TypeError", !.at = nodeId]
       ELSE LET s2 == VisitDeps(s1, s1.nodes[nodeId].dependencies, -1) IN
            IF s2.error # "none" THEN s2
            ELSE LET level == s2.ret + 1 IN
                 [s2 EXCEPT !.nodes[nodeId].level = level,
                            !.visited = @ \cup {nodeId},
                            !.inProgress = @ \ {nodeId},
                            !.levels = PushLevel(@, level, nodeId),
                            !.ret = level]

\* for (const depId of node.dependencies) maxDepLevel = Math.max(...)
VisitDeps(st, deps, maxDepLevel) ==
  IF deps = <<>> THEN [st EXCEPT !.ret = maxDepLevel]
  ELSE LET s1 == Visit(st, Head(deps)) IN
       IF s1.error # "none" THEN s1
       ELSE VisitDeps(s1, Tail(deps), MathMax(maxDepLevel, s1.ret))

\* for (const nodeId of nodes.keys()) visit(nodeId)
RECURSIVE VisitAll(_, _)
VisitAll(st, order) ==
  IF order = <<>> \/ st.error # "none" THEN st
  ELSE VisitAll(Visit(st, Head(order)), Tail(order))

BuildDAG(ts) ==
  LET st0 == [nodes |-> LinkNodes(CreateNodes(ts), NodeOrder(ts)),
              visited |-> {}, inProgress |-> {}, levels |-> <<>>,
              error |-> "none", at |-> "none", ret |-> 0]
      st == VisitAll(st0, NodeOrder(ts))
  IN IF st.error # "none"
     THEN [NoDAG EXCEPT !.status = "threw", !.error = st.error, !.at = st.at]
     ELSE [NoDAG EXCEPT !.status = "returned", !.nodes = st.nodes,
                        !.order = NodeOrder(ts), !.levels = st.levels]

\* The variables of executeParallel, which the other methods never touch.
execVars ==
  <<maxConcurrency, queue, inProgress, completed, results, pc, outcome,
    delivered, microtasks, running, dispatched, settled>>

\* Mutant: a node's dependents array is the task's own dependencies array
\* (dependents: task.dependencies), so linking writes into the tasks.
TasksAfterBuildSharingArrays(ts) ==
  LET linked == LinkNodes(CreateNodes(ts), NodeOrder(ts)) IN
  [i \in 1..Len(ts) |->
     [ts[i] EXCEPT !.dependencies = @ \o linked[ts[i].id].dependents]]

\* The task list after buildDAG ran on it.  A node refers to its task and
\* shares the task's dependencies array (lines 234-235), but buildDAG only
\* writes node.dependents (a fresh array) and node.level (a field of the
\* fresh node): no task is written.
TasksAfterBuild(ts) == ts

\* const dag = this.buildDAG(subtasks)
BuildDAGCall ==
  /\ dag.status = "none"
  /\ dag' = BuildDAG(tasks)
  /\ tasks' = TasksAfterBuild(tasks)
  /\ calls' = 1
  /\ UNCHANGED <<execVars, previous, critical, assignments, given>>

\* buildDAG called once more on the same list.
RebuildDAGCall ==
  /\ dag.status # "none" /\ calls = 1
  /\ previous' = dag
  /\ dag' = BuildDAG(tasks)
  /\ tasks' = TasksAfterBuild(tasks)
  /\ calls' = 2
  /\ UNCHANGED <<execVars, critical, assignments, given>>

\* Dependency lists without repetition, in every order, of at most MaxDeps
\* ids.
DepLists ==
  {s \in UNION {[1..n -> SeqToSet(DepOrder)] : n \in 0..MaxDeps} :
     \A i, j \in 1..Len(s) : i # j => s[i] # s[j]}

\* Batches in which one task declares the same dependency twice.
RepeatedDeclarations ==
  {[i \in 1..Len(TaskOrder) |->
      Task(TaskOrder[i], IF i = k THEN <<d, d>> ELSE <<>>, NoAgent)] :
     k \in 1..Len(TaskOrder), d \in TaskIds}

GraphBatches ==
  {[i \in 1..Len(TaskOrder) |-> Task(TaskOrder[i], d[i], NoAgent)] :
     d \in [1..Len(TaskOrder) -> DepLists]}
  \cup RepeatedDeclarations

GraphInit ==
  /\ tasks \in GraphBatches
  /\ dag = NoDAG
  /\ maxConcurrency = 1
  /\ queue = <<>>
  /\ inProgress = {}
  /\ completed = {}
  /\ results = <<>>
  /\ pc = "done"
  /\ outcome = "running"
  /\ delivered = <<>>
  /\ microtasks = <<>>
  /\ running = {}
  /\ dispatched = <<>>
  /\ settled = [id \in TaskIds |-> "pending"]
  /\ calls = 0
  /\ previous = NoDAG
  /\ critical = NoPath
  /\ assignments = <<>>
  /\ given = tasks

GraphNext == BuildDAGCall \/ RebuildDAGCall

GraphSpec == GraphInit /\ [][GraphNext]_vars

\* Every dispatched executor eventually settles; the timer fires and the
\* job queue drains.
FairSpec ==
  /\ Init /\ [][Next]_vars
  /\ WF_vars(LoopIteration)
  /\ WF_vars(RunMicrotask)
  /\ \A id \in TaskIds : WF_vars(\E how \in {"success", "failure", "raise"} :
                                   AgentSettles(id, how))

\* ------------------------------------------------------- batch properties
DepSet(ts, id) ==
  IF id \in Ids(ts) THEN SeqToSet(TaskById(ts, id).dependencies) ELSE {}

RECURSIVE Closure(_, _, _)
Closure(ts, S, n) ==
  IF n = 0 THEN S
  ELSE Closure(ts, S \cup UNION {DepSet(ts, x) : x \in S}, n - 1)

\* Everything id depends on, directly or through other tasks.
Ancestors(ts, id) == Closure(ts, DepSet(ts, id), Len(ts))

OnCycle(ts, id) == id \in Ancestors(ts, id)

HasCycle(ts) == \E id \in Ids(ts) : OnCycle(ts, id)

HasDanglingDep(ts) == \E id \in Ids(ts) : ~(DepSet(ts, id) \subseteq Ids(ts))

\* id can never become ready: it waits, directly or not, for an id that is
\* no task of the batch or for a task on a cycle.
NeverReady(ts, id) ==
  \E a \in Ancestors(ts, id) \cup {id} : a \notin Ids(ts) \/ OnCycle(ts, a)

\* Acyclic, every dependency inside the batch, every role registered.
WellFormed(ts) ==
  /\ ~HasCycle(ts)
  /\ ~HasDanglingDep(ts)
  /\ \A i \in 1..Len(ts) : HasAgent(ts[i])

ResultsFor(id) == {i \in 1..Len(results) : results[i].taskId = id}

Dispatched == SeqToSet(dispatched)

Raised == {id \in TaskIds : settled[id] = "raise"}

MaxOfSet(S) == CHOOSE x \in S : \A y \in S : y <= x

\* ---------------------------------------------------- identifyCriticalPath
\* null, the value of endpoint, current and criticalPred when there is none.
NoNode == "null"

\* duration.set(nodeId, node.task.estimatedHours)
Duration(nodes) == [id \in DOMAIN nodes |-> nodes[id].task.estimatedHours]

\* map.get(key) ?? 0
GetOrZero(map, key) == IF key \in DOMAIN map THEN map[key] ELSE 0

\* map.set(key, value)
MapSet(map, key, value) ==
  [k \in DOMAIN map \cup {key} |-> IF k = key THEN value ELSE map[k]]

\* predStart + predDuration, each read with ?? 0
PredFinish(earliestStart, duration, depId) ==
  GetOrZero(earliestStart, depId) + GetOrZero(duration, depId)

\* for (const depId of node.dependencies) maxPredEnd = Math.max(...)
RECURSIVE MaxPredEnd(_, _, _, _)
MaxPredEnd(earliestStart, duration, deps, maxPredEnd) ==
  IF deps = <<>> THEN maxPredEnd
  ELSE MaxPredEnd(earliestStart, duration, Tail(deps),
                  MathMax(maxPredEnd,
                          PredFinish(earliestStart, duration, Head(deps))))

\* The forward pass: for (const [nodeId, node] of nodes), in the order of
\* the Map's keys; a dependency that comes later in that order has no
\* earliest start yet and reads as 0.
RECURSIVE ForwardPass(_, _, _, _)
ForwardPass(nodes, duration, order, earliestStart) ==
  IF order = <<>> THEN earliestStart
  ELSE ForwardPass(nodes, duration, Tail(order),
         MapSet(earliestStart, Head(order),
                MaxPredEnd(earliestStart, duration,
                           nodes[Head(order)].dependencies, 0)))

\* let endpoint = null; let maxFinish = 0; if (finish > maxFinish) {...}
RECURSIVE FindEndpoint(_, _, _, _)
FindEndpoint(earliestStart, duration, order, best) ==
  IF order = <<>> THEN best
  ELSE LET finish == PredFinish(earliestStart, duration, Head(order)) IN
       FindEndpoint(earliestStart, duration, Tail(order),
         IF finish > best.maxFinish
         THEN [endpoint |-> Head(order), maxFinish |-> finish]
         ELSE best)

\* Mutant: the backtrack follows the first dependency, whatever its finish.
FirstPredOnly(predFinish, maxPredFinish) == maxPredFinish = -1

\* if (predFinish > maxPredFinish)
PredFinishExceeds(predFinish, maxPredFinish) == predFinish > maxPredFinish

\* let criticalPred = null; let maxPredFinish = -1; for (const depId of ...)
RECURSIVE CriticalPred(_, _, _, _)
CriticalPred(earliestStart, duration, deps, best) ==
  IF deps = <<>> THEN best
  ELSE LET predFinish == PredFinish(earliestStart, duration, Head(deps)) IN
       CriticalPred(earliestStart, duration, Tail(deps),
         IF PredFinishExceeds(predFinish, best.maxPredFinish)
         THEN [criticalPred |-> Head(deps), maxPredFinish |-> predFinish]
         ELSE best)

\* while (current) { criticalPath.unshift(current); ...; current =
\* criticalPred }.  nodes.get(current)! of an id that is no node is
\* undefined, and reading its dependencies raises a TypeError.
RECURSIVE Backtrack(_, _, _, _, _)
Backtrack(nodes, earliestStart, duration, current, criticalPath) ==
  IF current = NoNode THEN [error |-> "none", path |-> criticalPath]
  ELSE IF current \notin DOMAIN nodes
  THEN [error |-> "TypeError", path |-> <<current>> \o criticalPath]
  ELSE Backtrack(nodes, earliestStart, duration,
         CriticalPred(earliestStart, duration, nodes[current].dependencies,
                      [criticalPred |-> NoNode, maxPredFinish |-> -1]
                     ).criticalPred,
         <<current>> \o criticalPath)

\* Mutant: the path is returned but not stored on the DAG.
IdentifyCriticalPathNotStored(d) ==
  LET duration == Duration(d.nodes)
      earliestStart == ForwardPass(d.nodes, duration, d.order, <<>>)
      found == FindEndpoint(earliestStart, duration, d.order,
                            [endpoint |-> NoNode, maxFinish |-> 0])
      back == Backtrack(d.nodes, earliestStart, duration, found.endpoint,
                        <<>>)
  IN [status |-> IF back.error # "none" THEN "threw" ELSE "returned",
      path |-> IF back.error # "none" THEN <<>> ELSE back.path,
      earliestStart |-> earliestStart, dag |-> d]

\* identifyCriticalPath(dag): what it returns, the earliest starts it used,
\* and the DAG afterwards (dag.criticalPath is written only on the path
\* that backtracks).
IdentifyCriticalPath(d) ==
  LET duration == Duration(d.nodes)
      earliestStart == ForwardPass(d.nodes, duration, d.order, <<>>)
      found == FindEndpoint(earliestStart, duration, d.order,
                            [endpoint |-> NoNode, maxFinish |-> 0])
      back == Backtrack(d.nodes, earliestStart, duration, found.endpoint,
                        <<>>)
  IN IF found.endpoint = NoNode
     THEN [status |-> "returned", path |-> <<>>,
           earliestStart |-> earliestStart, dag |-> d]
     ELSE IF back.error # "none"
     THEN [status |-> "threw", path |-> <<>>,
           earliestStart |-> earliestStart, dag |-> d]
     ELSE [status |-> "returned", path |-> back.path,
           earliestStart |-> earliestStart,
           dag |-> [d EXCEPT !.criticalPath = back.path]]

\* const criticalPath = this.identifyCriticalPath(dag), on the DAG that
\* buildDAG returned.
IdentifyCriticalPathCall ==
  /\ dag.status = "returned" /\ critical.status = "none"
  /\ LET r == IdentifyCriticalPath(dag) IN
       /\ critical' = [status |-> r.status, path |-> r.path,
                       earliestStart |-> r.earliestStart]
       /\ dag' = r.dag
  /\ UNCHANGED <<tasks, execVars, calls, previous, assignments, given>>

\* identifyCriticalPath called once more on the same DAG.
RecomputeCriticalPathCall ==
  /\ critical.status = "returned" /\ calls = 1
  /\ LET r == IdentifyCriticalPath(dag) IN
       /\ critical' = [status |-> r.status, path |-> r.path,
                       earliestStart |-> r.earliestStart]
       /\ dag' = r.dag
  /\ previous' = critical
  /\ calls' = 2
  /\ UNCHANGED <<tasks, execVars, assignments, given>>

\* Ids a dependency list of a closed batch can name.
ClosedDepLists == {s \in DepLists : SeqToSet(s) \subseteq TaskIds}

TaskOf(id, deps, hours) ==
  [Task(id, deps, NoAgent) EXCEPT !.estimatedHours = hours]

\* The chain A -> B -> C with durations 2, 3, 4.
ChainExample ==
  <<TaskOf("A", <<>>, 2), TaskOf("B", <<"A">>, 3), TaskOf("C", <<"B">>, 4)>>

\* The diamond A -> {B, C} -> D with durations 1, 5, 2, 1.
DiamondExample ==
  <<TaskOf("A", <<>>, 1), TaskOf("B", <<"A">>, 5), TaskOf("C", <<"A">>, 2),
    TaskOf("D", <<"B", "C">>, 1)>>

\* Acyclic closed batches in every list order with every duration up to
\* MaxHours, the empty batch, and the two examples.
PathBatches ==
  LET n == Len(TaskOrder)
      batch(d, h) == [i \in 1..n |-> TaskOf(TaskOrder[i], d[i], h[i])]
      acyclic == {d \in [1..n -> ClosedDepLists] :
                    ~HasCycle(batch(d, [i \in 1..n |-> 0]))}
  IN {batch(d, h) : d \in acyclic, h \in [1..n -> 0..MaxHours]}
       \cup {<<>>, ChainExample, DiamondExample}

\* No executeParallel is under way.
ExecIdle ==
  /\ maxConcurrency = 1
  /\ queue = <<>>
  /\ inProgress = {}
  /\ completed = {}
  /\ results = <<>>
  /\ pc = "done"
  /\ outcome = "running"
  /\ delivered = <<>>
  /\ microtasks = <<>>
  /\ running = {}
  /\ dispatched = <<>>
  /\ settled = [id \in TaskIds |-> "pending"]

PathInit ==
  /\ tasks \in PathBatches
  /\ ExecIdle
  /\ dag = NoDAG
  /\ calls = 0
  /\ previous = NoDAG
  /\ critical = NoPath
  /\ assignments = <<>>
  /\ given = tasks

PathNext ==
  BuildDAGCall \/ IdentifyCriticalPathCall \/ RecomputeCriticalPathCall

PathSpec == PathInit /\ [][PathNext]_vars

\* ------------------------------------------------ critical-path properties
Hours(ts, id) == TaskById(ts, id).estimatedHours

RECURSIVE SumHours(_, _)
SumHours(ts, path) ==
  IF path = <<>> THEN 0 ELSE Hours(ts, Head(path)) + SumHours(ts, Tail(path))

\* Each element of the path is a dependency of the next.
IsChain(ts, path) ==
  /\ \A k \in 1..Len(path) : path[k] \in Ids(ts)
  /\ \A k \in 1..(Len(path) - 1) : path[k] \in DepSet(ts, path[k + 1])

\* The largest summed duration of a dependency chain that ends in id.
RECURSIVE LongestTo(_, _)
LongestTo(ts, id) ==
  Hours(ts, id) + MaxOfSet({0} \cup {LongestTo(ts, d) : d \in DepSet(ts, id)})

LongestChain(ts) == MaxOfSet({0} \cup {LongestTo(ts, id) : id \in Ids(ts)})

\* The earliest start of the forward-pass recurrence.
RECURSIVE EarliestStart(_, _)
EarliestStart(ts, id) ==
  MaxOfSet({0} \cup {EarliestStart(ts, d) + Hours(ts, d) :
                       d \in DepSet(ts, id)})

\* The list names every task after all of its dependencies.
DependenciesFirst(ts) ==
  \A i \in 1..Len(ts) :
    DepSet(ts, ts[i].id) \subseteq {ts[j].id : j \in 1..(i - 1)}

PathFound == critical.status = "returned"

\* ------------------------------------------------------------ assignAgents
\* Largest number of labels of a task.
MaxLabels == 2

Upper == "ABCDEFGHIJKLMNOPQRSTUVWXYZ"
Lower == "abcdefghijklmnopqrstuvwxyz"

CharAt(s, i) == SubSeq(s, i, i)

LowerChar(c) ==
  IF \E i \in 1..Len(Upper) : CharAt(Upper, i) = c
  THEN CharAt(Lower, CHOOSE i \in 1..Len(Upper) : CharAt(Upper, i) = c)
  ELSE c

\* String.prototype.toLowerCase, on the characters the labels are made of.
RECURSIVE ToLowerCase(_)
ToLowerCase(s) ==
  IF Len(s) = 0 THEN ""
  ELSE LowerChar(CharAt(s, 1)) \o ToLowerCase(SubSeq(s, 2, Len(s)))

\* String.prototype.includes
Includes(s, sub) ==
  \E i \in 1..(Len(s) - Len(sub) + 1) : SubSeq(s, i, i + Len(sub) - 1) = sub

\* task.labels.map((l) => l.toLowerCase())
LowerCased(labels) == [i \in 1..Len(labels) |-> ToLowerCase(labels[i])]

\* labels.some((l) => l.includes(sub))
SomeIncludes(labels, sub) ==
  \E i \in 1..Len(labels) : Includes(labels[i], sub)

\* if (task.assignedAgent): undefined and the empty string are falsy.
Truthy(agent) == agent # NoAgent /\ agent # ""

\* Mutant: the deploy rule is tried before the test rule.
DetermineAgentTypeDeployFirst(task) ==
  IF Truthy(task.assignedAgent) THEN task.assignedAgent
  ELSE LET labels == LowerCased(task.labels) IN
       IF SomeIncludes(labels, "deploy") THEN "deploy"
       ELSE IF SomeIncludes(labels, "test") THEN "test"
       ELSE IF SomeIncludes(labels, "review") THEN "review"
       ELSE IF SomeIncludes(labels, "pr") \/ SomeIncludes(labels, "pull")
       THEN "pr"
       ELSE IF SomeIncludes(labels, "issue") THEN "issue"
       ELSE "codegen"

DetermineAgentType(task) ==
  IF Truthy(task.assignedAgent) THEN task.assignedAgent
  ELSE LET labels == LowerCased(task.labels) IN
       IF SomeIncludes(labels, "test") THEN "test"
       ELSE IF SomeIncludes(labels, "deploy") THEN "deploy"
       ELSE IF SomeIncludes(labels, "review") THEN "review"
       ELSE IF SomeIncludes(labels, "pr") \/ SomeIncludes(labels, "pull")
       THEN "pr"
       ELSE IF SomeIncludes(labels, "issue") THEN "issue"
       ELSE "codegen"

GetPriorityValue(priority) ==
  CASE priority = "P0-Critical" -> 4
    [] priority = "P1-High" -> 3
    [] priority = "P2-Medium" -> 2
    [] priority = "P3-Low" -> 1
    [] OTHER -> 0

\* Mutant: the comparator of an ascending sort.
CompareAscending(a, b) == a.priority - b.priority

\* (a, b) => b.priority - a.priority
Compare(a, b) == b.priority - a.priority

\* Array.prototype.sort is stable: an element goes behind every element it
\* does not have to precede (Compare(y, x) <= 0).
RECURSIVE InsertSorted(_, _)
InsertSorted(sorted, x) ==
  IF sorted = <<>> THEN <<x>>
  ELSE IF Compare(Head(sorted), x) > 0 THEN <<x>> \o sorted
  ELSE <<Head(sorted)>> \o InsertSorted(Tail(sorted), x)

RECURSIVE Sort(_, _)
Sort(list, sorted) ==
  IF list = <<>> THEN sorted
  ELSE Sort(Tail(list), InsertSorted(sorted, Head(list)))

\* assignments.push({ taskId, agentType, priority })
Assignment(task) ==
  [taskId |-> task.id, agentType |-> DetermineAgentType(task),
   priority |-> GetPriorityValue(task.priority)]

AssignAgents(ts) == Sort([i \in 1..Len(ts) |-> Assignment(ts[i])], <<>>)

\* Mutant: the task list itself is sorted in place by priority.
TasksAfterAssignSortedInPlace(ts) ==
  LET sorted == AssignAgents(ts) IN
  [i \in 1..Len(ts) |-> TaskById(ts, sorted[i].taskId)]

\* The task list after assignAgents ran on it: the method reads the tasks
\* and pushes onto and sorts its own fresh array; no task is written.
TasksAfterAssign(ts) == ts

\* const assignments = this.assignAgents(subtasks); also called once more
\* on the same list.
AssignAgentsCall ==
  /\ calls < 2
  /\ previous' = assignments
  /\ assignments' = AssignAgents(tasks)
  /\ tasks' = TasksAfterAssign(tasks)
  /\ calls' = calls + 1
  /\ UNCHANGED <<execVars, dag, critical, given>>

Priorities == {"P0-Critical", "P1-High", "P2-Medium", "P3-Low"}

\* A value outside the Priority enum.
Unrecognized == "P4-Someday"

LabelPool ==
  {"type:test", "Deploy", "code-review", "PR", "pull", "issue", "docs",
   "latest", "priority:high"}

LabelLists == UNION {[1..n -> LabelPool] : n \in 0..MaxLabels}

\* undefined, the empty string, and a role no label rule yields.
AssignedChoices == {NoAgent, "", "docs-writer"}

TaskWith(id, priority, agent, labels) ==
  [Task(id, <<>>, agent) EXCEPT !.priority = priority, !.labels = labels]

\* A task with the role and labels under study, a labelled task without
\* role and a task with role and labels behind it.
AssignBatch(p, a, l) ==
  <<TaskWith("A", p[1], a, l),
    TaskWith("B", p[2], NoAgent, <<"PULL-request">>),
    TaskWith("C", p[3], "review", <<"type:test">>)>>

\* Every priority for every task (the first task without role or label),
\* and every role and label list for the first task (equal priorities:
\* determineAgentType reads no priority, getPriorityValue no label).
AssignBatches ==
  {AssignBatch(p, NoAgent, <<>>) :
     p \in [1..3 -> Priorities \cup {Unrecognized}]}
  \cup {AssignBatch([i \in 1..3 |-> "P2-Medium"], a, l) :
          a \in AssignedChoices, l \in LabelLists}

AssignInit ==
  /\ tasks \in AssignBatches
  /\ ExecIdle
  /\ dag = NoDAG
  /\ calls = 0
  /\ previous = <<>>
  /\ critical = NoPath
  /\ assignments = <<>>
  /\ given = tasks

AssignNext == AssignAgentsCall

AssignSpec == AssignInit /\ [][AssignNext]_vars

\* ----------------------------------------------------- assignment properties
\* The label rules in their order: role and the substrings that select it.
LabelRules ==
  <<[role |-> "test", substrings |-> {"test"}],
    [role |-> "deploy", substrings |-> {"deploy"}],
    [role |-> "review", substrings |-> {"review"}],
    [role |-> "pr", substrings |-> {"pr", "pull"}],
    [role |-> "issue", substrings |-> {"issue"}]>>

RuleMatches(k, labels) ==
  \E i \in 1..Len(labels), sub \in LabelRules[k].substrings :
    Includes(ToLowerCase(labels[i]), sub)

RoleByFirstRule(labels) ==
  LET hits == {k \in 1..Len(LabelRules) : RuleMatches(k, labels)} IN
  IF hits = {} THEN "codegen"
  ELSE LabelRules[CHOOSE k \in hits : \A j \in hits : k <= j].role

HasExplicitRole(task) ==
  task.assignedAgent # NoAgent /\ task.assignedAgent # ""

Weight(priority) ==
  IF priority = "P0-Critical" THEN 4
  ELSE IF priority = "P1-High" THEN 3
  ELSE IF priority = "P2-Medium" THEN 2
  ELSE IF priority = "P3-Low" THEN 1 ELSE 0

Position(ts, id) == CHOOSE i \in 1..Len(ts) : ts[i].id = id

AssignmentOf(id) ==
  assignments[CHOOSE i \in 1..Len(assignments) : assignments[i].taskId = id]

Assigned == calls >= 1

\* ----------------------------------------- executeParallel on labelled tasks
\* The batches of ExecBatches, the first task labelled for the test role.
RoleBatches ==
  {[b EXCEPT ![1].labels = <<"type:test">>] : b \in ExecBatches}

RoleInit ==
  /\ tasks \in RoleBatches
  /\ maxConcurrency \in 1..MaxConc
  /\ queue = tasks
  /\ inProgress = {}
  /\ completed = {}
  /\ results = <<>>
  /\ pc = "loop"
  /\ outcome = "running"
  /\ delivered = <<>>
  /\ microtasks = <<>>
  /\ running = {}
  /\ dispatched = <<>>
  /\ settled = [id \in TaskIds |-> "pending"]
  /\ dag = NoDAG
  /\ calls = 0
  /\ previous = NoDAG
  /\ critical = NoPath
  /\ assignments = <<>>
  /\ given = tasks

RoleSpec == RoleInit /\ [][Next]_vars

\* The results that an executor returned (not built by the .catch handler).
ExecutorResults ==
  {i \in 1..Len(results) : results[i].error \in {"none", "ExecutionFailure"}}

\* ------------------------------------------------------------------ claims

\* C1: a task is dispatched only after the Execution Result of each of its
\* dependencies has been appended to results (results only grows, so every
\* dispatched task has all its dependencies' results from its dispatch on).
C1_DispatchAfterDependencyResults ==
  \A id \in Dispatched :
    \A d \in DepSet(tasks, id) : ResultsFor(d) # {}

\* C1 witness: a task with two dependencies has been dispatched.
C1_Witness ==
  \E id \in Dispatched : Cardinality(DepSet(tasks, id)) = 2

\* C2: at most maxConcurrency tasks are in flight.
C2_ConcurrencyCeiling == Cardinality(inProgress) <= maxConcurrency

\* C2 witness: the ceiling is reached while another task is ready.
C2_Witness ==
  /\ Cardinality(inProgress) = maxConcurrency
  /\ ReadyTasks(queue, completed) # <<>>
  /\ Len(dispatched) > maxConcurrency

\* C3: a batch with a task that can never become ready ends in the deadlock
\* error, given that every dispatched executor settles.
C3_DeadlockDetected ==
  (\E id \in Ids(tasks) : NeverReady(tasks, id)) ~> (outcome = "DeadlockError")

\* C3 witness: the deadlock error after some task did run to completion.
C3_Witness ==
  /\ outcome = "DeadlockError"
  /\ completed # {}
  /\ \E id \in Ids(tasks) : NeverReady(tasks, id)

\* C4 (as claimed): once executeTask has been called for a task whose role
\* has no registered agent, the run has ended in MissingRoleError and that
\* task is the last one dispatched.
C4_MissingRoleFailsRun ==
  \A i \in 1..Len(dispatched) :
    ~HasAgent(TaskById(tasks, dispatched[i]))
      => outcome = "MissingRoleError" /\ i = Len(dispatched)

C6_DeadlockDeliversResults ==
  outcome = "DeadlockError" =>
    \A id \in completed :
      \E i \in 1..Len(delivered) : delivered[i] \in SeqToSet(results)
                                    /\ delivered[i].taskId = id

\* C7: when the run returns, results holds exactly one result per dispatched
\* task and none for any other; a well-formed batch in which no executor
\* raised returns with exactly one result per task.
C7_OneResultPerDispatchedTask ==
  /\ (pc = "done" /\ outcome = "returned") =>
       /\ \A i \in 1..Len(results) : results[i].taskId \in Dispatched
       /\ \A id \in Dispatched : Cardinality(ResultsFor(id)) = 1
       /\ Len(dispatched) = Cardinality(Dispatched)
       /\ delivered = results
  /\ (pc = "done" /\ WellFormed(tasks) /\ Raised = {}) =>
       /\ outcome = "returned"
       /\ \A id \in Ids(tasks) : Cardinality(ResultsFor(id)) = 1

\* C7 witness: a run returned with a result for every task, one of them the
\* failed result of a role without agent.
C7_Witness ==
  /\ pc = "done" /\ outcome = "returned"
  /\ Len(results) = Len(tasks)
  /\ \E i \in 1..Len(results) : results[i].error = "Agent not found"
  /\ \E i \in 1..Len(results) : results[i].success

\* ------------------------------------------------------- buildDAG: claims
Built == dag.status # "none"


\* C8: for an acyclic list whose dependency ids all name tasks of the list,
\* buildDAG returns and every node has level 0 without dependencies and
\* otherwise 1 + the greatest level among its dependencies.
C8_LevelsAreLongestPaths ==
  (Built /\ ~HasCycle(tasks) /\ ~HasDanglingDep(tasks)) =>
    /\ dag.status = "returned"
    /\ DOMAIN dag.nodes = Ids(tasks)
    /\ \A id \in Ids(tasks) :
         dag.nodes[id].level =
           IF DepSet(tasks, id) = {} THEN 0
           ELSE 1 + MaxOfSet({dag.nodes[d].level : d \in DepSet(tasks, id)})

\* C8 witness: a chain listed against its dependency order (A needs B, B
\* needs C) and built to levels 2, 1, 0.
C8_Witness ==
  /\ dag.status = "returned"
  /\ dag.nodes["A"].level = 2 /\ dag.nodes["B"].level = 1
  /\ dag.nodes["C"].level = 0
  /\ Len(tasks[1].dependencies) = 2

\* C9 (as claimed): every list that contains a dependency cycle makes
\* buildDAG throw the circular-dependency error naming a task on a cycle.
C9_CycleAlwaysReported ==
  (Built /\ HasCycle(tasks)) =>
    /\ dag.status = "threw"
    /\ dag.error = "CircularDependency"
    /\ dag.at \in Ids(tasks) /\ OnCycle(tasks, dag.at)

\* C9 (amended): the same for every list that contains a dependency cycle
\* and whose dependency ids all name tasks of the list.
C9_CycleReportedInClosedList ==
  (Built /\ HasCycle(tasks) /\ ~HasDanglingDep(tasks)) =>
    /\ dag.status = "threw"
    /\ dag.error = "CircularDependency"
    /\ dag.at \in Ids(tasks) /\ OnCycle(tasks, dag.at)
    /\ dag.nodes = <<>> /\ dag.levels = <<>>

\* C9 witness: a cycle through two tasks, reached from a task outside it.
C9_Witness ==
  /\ dag.status = "threw" /\ dag.error = "CircularDependency"
  /\ ~HasDanglingDep(tasks)
  /\ ~OnCycle(tasks, "A") /\ OnCycle(tasks, "B") /\ OnCycle(tasks, "C")
  /\ tasks[2].dependencies = <<"C">>

\* C10 (as claimed): every list with a dependency id that names no task of
\* the list makes buildDAG throw an error that is not the circular-dependency
\* error.
C10_DanglingAlwaysReported ==
  (Built /\ HasDanglingDep(tasks)) =>
    /\ dag.status = "threw"
    /\ dag.error \notin {"none", "CircularDependency"}

\* C11 (as claimed): identifyCriticalPath returns the empty path only for a
\* DAG without nodes; every DAG with a node, all durations 0 included, gets
\* a path that is not empty.
C11_EmptyPathOnlyForEmptyDAG ==
  PathFound => (critical.path = <<>> <=> DOMAIN dag.nodes = {})

\* C12: for a list that names every task after its dependencies and has
\* only positive durations, the returned path is a dependency chain whose
\* summed duration is the largest of any chain; the chain example returns
\* [A, B, C] (9) and the diamond example [A, B, D] (7).
C12_LongestChainWhenDependenciesFirst ==
  (PathFound /\ DependenciesFirst(tasks)
     /\ \A i \in 1..Len(tasks) : tasks[i].estimatedHours > 0) =>
    /\ IsChain(tasks, critical.path)
    /\ SumHours(tasks, critical.path) = LongestChain(tasks)
    /\ dag.criticalPath = critical.path
    /\ tasks = ChainExample =>
         critical.path = <<"A", "B", "C">> /\ LongestChain(tasks) = 9
    /\ tasks = DiamondExample =>
         critical.path = <<"A", "B", "D">> /\ LongestChain(tasks) = 7

\* C12 witness: the path of the diamond example has been found.
C12_Witness ==
  /\ PathFound /\ tasks = DiamondExample
  /\ critical.path = <<"A", "B", "D">>
  /\ SumHours(tasks, critical.path) = 7

\* C13 (as claimed): for every acyclic batch in every list order, the
\* earliest start used for a node is the maximum over its dependencies of
\* (earliest start + duration), and the path's summed duration is the
\* largest of any dependency chain.
C13_ForwardPassInAnyOrder ==
  PathFound =>
    /\ \A id \in Ids(tasks) :
         critical.earliestStart[id] = EarliestStart(tasks, id)
    /\ SumHours(tasks, critical.path) = LongestChain(tasks)

C15_RoleByExplicitAssignmentOrFirstRule ==
  Assigned =>
    \A i \in 1..Len(tasks) :
      LET task == tasks[i]
          role == AssignmentOf(task.id).agentType
      IN /\ HasExplicitRole(task) => role = task.assignedAgent
         /\ ~HasExplicitRole(task) =>
              /\ role = RoleByFirstRule(task.labels)
              /\ task.labels = <<"type:test">> => role = "test"
              /\ task.labels = <<"Deploy", "type:test">> => role = "test"
              /\ task.labels = <<"Deploy">> => role = "deploy"
              /\ task.labels = <<"PULL-request">> => role = "pr"
              /\ task.labels = <<"docs", "PR">> => role = "pr"
              /\ task.labels = <<"latest">> => role = "test"
              /\ task.labels = <<"priority:high", "issue">> => role = "pr"
              /\ task.labels \in {<<>>, <<"docs">>} => role = "codegen"

\* C15 witness: a task without role whose labels match the deploy rule
\* first and the test rule second has been assigned the test role.
C15_Witness ==
  /\ Assigned
  /\ tasks[1].assignedAgent = NoAgent
  /\ tasks[1].labels = <<"Deploy", "type:test">>
  /\ AssignmentOf("A").agentType = "test"

\* C16: the returned list is ordered by descending weight (Critical 4,
\* High 3, Medium 2, Low 1, anything else 0), assignments of equal weight
\* stand in the order of their tasks, and priorities [Low, Critical,
\* Medium] come back as [Critical, Medium, Low].
C16_DescendingWeightStable ==
  Assigned =>
    /\ \A i \in 1..Len(assignments) :
         assignments[i].priority =
           Weight(TaskById(tasks, assignments[i].taskId).priority)
    /\ \A i, j \in 1..Len(assignments) :
         i < j =>
           /\ assignments[i].priority >= assignments[j].priority
           /\ assignments[i].priority = assignments[j].priority =>
                Position(tasks, assignments[i].taskId)
                  < Position(tasks, assignments[j].taskId)
    /\ [i \in 1..Len(tasks) |-> tasks[i].priority]
         = <<"P3-Low", "P0-Critical", "P2-Medium">> =>
         [i \in 1..Len(assignments) |-> assignments[i].taskId]
           = <<"B", "C", "A">>

\* C16 witness: [Low, Critical, Medium] has been assigned and came back as
\* the second, the third and the first task.
C16_Witness ==
  /\ Assigned
  /\ [i \in 1..Len(tasks) |-> tasks[i].priority]
       = <<"P3-Low", "P0-Critical", "P2-Medium">>
  /\ [i \in 1..Len(assignments) |-> assignments[i].priority] = <<4, 2, 1>>

\* C17: assignAgents returns one assignment for each task of the list (the
\* same ids, the same count), leaves the list and every field of every task
\* as they were, and on a second call returns the list it returned before.
C17_AssignIsPure ==
  /\ Assigned =>
       /\ Len(assignments) = Len(tasks)
       /\ \A i \in 1..Len(tasks) :
            Cardinality({k \in 1..Len(assignments) :
                           assignments[k].taskId = tasks[i].id}) = 1
       /\ tasks = given
  /\ calls = 2 => assignments = previous

\* C17 witness: the second call has returned, with a list that is not in
\* the order of the tasks.
C17_Witness ==
  /\ calls = 2
  /\ assignments = previous
  /\ assignments[1].taskId = "C" /\ assignments[3].taskId = "A"

\* The ids still in the pending queue.
Pending == {queue[i].id : i \in 1..Len(queue)}

\* Pending, Dispatched (executeTask was called, the task is not completed)
\* or Completed.
Phase(id, q, disp, comp) ==
  IF id \in comp THEN "Completed"
  ELSE IF id \in SeqToSet(disp) THEN "Dispatched"
  ELSE IF \E i \in 1..Len(q) : q[i].id = id THEN "Pending"
  ELSE "Lost"

\* The resume job of id, queued when its executor settled, has run.
Resumed(id) ==
  /\ settled[id] # "pending"
  /\ \A i \in 1..Len(microtasks) :
       ~(microtasks[i].kind = "resume" /\ microtasks[i].id = id)

\* C18: executeTask is called at most once for each task, so its executor
\* is invoked at most once; a task for which it was called is not in the
\* pending queue again, whatever its executor did; and a task only ever
\* moves from Pending to Dispatched and from Dispatched to Completed.
C18_DispatchedAtMostOnce ==
  /\ [](/\ \A i, j \in 1..Len(dispatched) :
             i # j => dispatched[i] # dispatched[j]
        /\ Pending \cap Dispatched = {}
        /\ Pending \cup Dispatched = Ids(tasks)
        /\ completed \subseteq Dispatched
        /\ running \subseteq Dispatched)
  /\ [][\A id \in Ids(tasks) :
          LET before == Phase(id, queue, dispatched, completed)
              after == Phase(id, queue', dispatched', completed')
          IN after # before =>
               \/ before = "Pending" /\ after = "Dispatched"
               \/ before = "Dispatched" /\ after = "Completed"]_vars

\* C18 witness: the run has ended after an executor raised and another
\* returned a failure; both tasks have their result and are not pending.
C18_Witness ==
  /\ pc = "done"
  /\ \E a, b \in Dispatched :
       /\ settled[a] = "raise" /\ settled[b] = "failure"
       /\ ResultsFor(a) # {} /\ ResultsFor(b) # {}
       /\ {a, b} \cap Pending = {}

\* C19: when every dispatched executor settles, executeParallel ends for
\* every batch, cyclic or with dangling dependencies included, by returning
\* or by the deadlock error, and it returns only with an empty queue and
\* nothing in flight.
C19_EndsAndReturnsOnlyWhenDrained ==
  /\ <>(pc = "done")
  /\ [](pc = "done" => outcome \in {"returned", "DeadlockError"})
  /\ [](outcome = "returned" => queue = <<>> /\ inProgress = {})

\* C19 witness: the run of a batch with a dependency cycle has ended after
\* the one task outside the cycle was dispatched and delivered its result.
C19_Witness ==
  /\ pc = "done" /\ outcome = "DeadlockError"
  /\ HasCycle(tasks) /\ ~HasDanglingDep(tasks)
  /\ Len(dispatched) = 1 /\ Len(results) = 1
  /\ Len(queue) = 2 /\ inProgress = {}

\* C20: a task whose executor returned a result with success = false is in
\* completed as soon as executeTask has resumed, exactly like one that
\* returned success = true; and no run ends with a task left in the queue
\* whose dependencies all returned a result, failed or not.
C20_FailureCompletesAndUnblocks ==
  /\ \A id \in Ids(tasks) :
       (settled[id] \in {"success", "failure"} /\ Resumed(id)) =>
         id \in completed /\ id \notin inProgress
  /\ \A i \in 1..Len(queue) :
       (\A d \in DepSet(tasks, queue[i].id) : d \in completed) =>
         queue[i] \in SeqToSet(ReadyTasks(queue, completed))
  /\ pc = "done" =>
       \A i \in 1..Len(queue) :
         \E d \in DepSet(tasks, queue[i].id) :
           d \notin Ids(tasks) \/ settled[d] \notin {"success", "failure"}

\* C20 witness: a task has been dispatched all of whose dependencies, two
\* of them, returned a failure.
C20_Witness ==
  \E id \in Dispatched :
    /\ Cardinality(DepSet(tasks, id)) = 2
    /\ \A d \in DepSet(tasks, id) : settled[d] = "failure"

\* C21: once executeTask has resumed from an executor that raised, the task
\* is neither in flight nor completed, and no task that depends on a task
\* whose executor raised, directly or through other tasks, is dispatched.
C21_RaiseBlocksDependents ==
  /\ \A id \in Raised :
       Resumed(id) => id \notin inProgress /\ id \notin completed
  /\ \A id \in Dispatched :
       \A a \in Ancestors(tasks, id) : a \notin Raised

\* C21 witness: the run has ended after an executor raised, with a task
\* still queued that depends on the raising task only through another.
C21_Witness ==
  /\ pc = "done"
  /\ \E a \in Raised, b, c \in Pending :
       /\ DepSet(tasks, b) = {a}
       /\ DepSet(tasks, c) = {b}
       /\ Resumed(a) /\ a \notin inProgress \cup completed

\* C22: the deadlock error is raised only with a non-empty queue, nothing
\* in flight, no executor running and no queued task all of whose
\* dependencies are in completed.
C22_DeadlockOnlyWhenBlocked ==
  outcome = "DeadlockError" =>
    /\ Len(queue) > 0
    /\ inProgress = {} /\ running = {}
    /\ \A i \in 1..Len(queue) :
         \E d \in DepSet(tasks, queue[i].id) : d \notin completed

\* C22 witness: the deadlock error after two tasks completed, the third
\* waiting for an id that is no task of the batch.
C22_Witness ==
  /\ outcome = "DeadlockError"
  /\ Cardinality(completed) = 2
  /\ Len(queue) = 1 /\ Dangling \in DepSet(tasks, queue[1].id)

\* C23 (as claimed): every result an executor returned comes from the
\* executor of the role assignAgents gives the task: the explicit role,
\* else the role derived from the labels, else codegen; a task without
\* explicit role and with a label containing "test" is run by the test
\* executor.
C23_RunsOnAssignedRole ==
  \A i \in ExecutorResults :
    LET task == TaskById(tasks, results[i].taskId) IN
    /\ results[i].agentName = DetermineAgentType(task)
    /\ (task.assignedAgent = NoAgent /\ task.labels = <<"type:test">>) =>
         results[i].agentName = "test"

\* The queued tasks all of whose dependencies are in completed, in queue
\* order.
RECURSIVE ReadyInOrder(_)
ReadyInOrder(q) ==
  IF q = <<>> THEN <<>>
  ELSE (IF SeqToSet(Head(q).dependencies) \subseteq completed
        THEN <<Head(q)>> ELSE <<>>) \o ReadyInOrder(Tail(q))

\* The tasks a scheduling round is to dispatch: the first min(number of
\* ready tasks, maxConcurrency - number in flight) ready tasks.
RoundShare ==
  LET ready == ReadyInOrder(queue)
      free == maxConcurrency - Cardinality(inProgress)
  IN SubSeq(ready, 1, IF Len(ready) <= free THEN Len(ready) ELSE free)

RECURSIVE Without(_, _)
Without(q, S) ==
  IF q = <<>> THEN <<>>
  ELSE (IF Head(q).id \in S THEN <<>> ELSE <<Head(q)>>) \o Without(Tail(q), S)

\* C24 (as claimed): a scheduling round dispatches exactly the first
\* min(number of ready tasks, maxConcurrency - number in flight) ready
\* tasks in queue order, and each of them leaves the queue and enters the
\* in-flight set in that round.
C24_RoundDispatchesFirstReady ==
  [][dispatched' # dispatched =>
       /\ dispatched' = dispatched \o NodeOrder(RoundShare)
       /\ queue' = Without(queue, SeqToSet(NodeOrder(RoundShare)))
       /\ inProgress' = inProgress \cup SeqToSet(NodeOrder(RoundShare))]_vars

\* The ids that entered the in-flight set: executeTask was called for them
\* and found their agent.
WasInFlight == {id \in Dispatched : HasAgent(TaskById(tasks, id))}

\* C25: whenever the loop is at its top, about to compute readiness, the
\* pending queue, the in-flight set and the completed set are pairwise
\* disjoint, every completed task was in flight before, and every task
\* whose executor returned a result has left the in-flight set for the
\* completed set; this holds in every order in which executors settle.
C25_BookkeepingSerialized ==
  LoopTurn =>
    /\ Pending \cap inProgress = {}
    /\ Pending \cap completed = {}
    /\ inProgress \cap completed = {}
    /\ completed \subseteq WasInFlight
    /\ \A id \in WasInFlight :
         /\ settled[id] = "pending" => id \in inProgress
         /\ settled[id] \in {"success", "failure"} =>
              id \in completed /\ id \notin inProgress

\* C25 witness: the loop is at its top with one task completed, one in
\* flight and one pending, the first two having been in flight together.
C25_Witness ==
  /\ LoopTurn
  /\ Cardinality(completed) = 1 /\ Cardinality(inProgress) = 1
  /\ Cardinality(Pending) = 1
  /\ maxConcurrency = 2
  /\ completed = {dispatched[2]} /\ inProgress = {dispatched[1]}

\* A queued task is held back only by a dependency chain that leads to a
\* raised executor, a task without registered role, a cycle or an id that
\* is no task of the batch.
HeldBack(id) ==
  \E a \in Ancestors(tasks, id) \cup {id} :
    \/ a \notin Ids(tasks)
    \/ OnCycle(tasks, a)
    \/ a # id /\ (a \in Raised \/ ~HasAgent(TaskById(tasks, a)))

\* C26: a failing task cancels no other: an executor stops running only by
\* settling itself; once executeTask has resumed from a failure the task's
\* slot is free; and when the run has ended every task that was in flight
\* has settled and has its own single result, and every task still pending
\* is one that depends on a failed or otherwise blocked task.
C26_FailureCancelsNoSibling ==
  /\ [][\A id \in running \ running' :
          settled[id] = "pending" /\ settled'[id] # "pending"]_vars
  /\ [](\A id \in Ids(tasks) :
          (settled[id] \in {"failure", "raise"} /\ Resumed(id)) =>
            id \notin inProgress)
  /\ [](pc = "done" =>
          /\ \A id \in WasInFlight :
               settled[id] # "pending" /\ Cardinality(ResultsFor(id)) = 1
          /\ \A id \in Pending : HeldBack(id))

\* C26 witness: two tasks were in flight together, the first raised and the
\* second then returned success; the third, independent of both, was
\* dispatched after the raise, and the run has returned three results.
C26_Witness ==
  /\ pc = "done" /\ outcome = "returned" /\ Len(results) = 3
  /\ maxConcurrency = 2
  /\ Len(dispatched) = 3
  /\ settled[dispatched[1]] = "raise"
  /\ settled[dispatched[2]] = "success"
  /\ settled[dispatched[3]] = "success"
  /\ \A id \in Ids(tasks) : DepSet(tasks, id) = {}

\* How often x occurs in the list s.
Count(s, x) == Cardinality({i \in 1..Len(s) : s[i] = x})

\* C27 (as claimed): in the DAG buildDAG returned, group i of levels holds
\* exactly the nodes of level i, each once, no group is empty, and the
\* nodes of a group stand in the order of their tasks in the list.
C27_GroupsInTaskOrder ==
  dag.status = "returned" =>
    /\ \A id \in DOMAIN dag.nodes : dag.nodes[id].level + 1 <= Len(dag.levels)
    /\ \A i \in 1..Len(dag.levels) :
         /\ dag.levels[i] # <<>>
         /\ \A id \in DOMAIN dag.nodes :
              Count(dag.levels[i], id)
                = (IF dag.nodes[id].level = i - 1 THEN 1 ELSE 0)
         /\ \A k, l \in 1..Len(dag.levels[i]) :
              k < l => Position(tasks, dag.levels[i][k])
                         < Position(tasks, dag.levels[i][l])

\* C28: in the DAG buildDAG returned, task n stands in the dependents of
\* task d once for each time n declares d as a dependency, and not at all
\* when it does not; a task nothing depends on has no dependents.
C28_DependentsMirrorDependencies ==
  dag.status = "returned" =>
    /\ \A d, n \in DOMAIN dag.nodes :
         Count(dag.nodes[d].dependents, n)
           = Count(TaskById(tasks, n).dependencies, d)
    /\ \A d \in DOMAIN dag.nodes :
         /\ SeqToSet(dag.nodes[d].dependents) \subseteq DOMAIN dag.nodes
         /\ (\A n \in Ids(tasks) : d \notin DepSet(tasks, n)) =>
              dag.nodes[d].dependents = <<>>

\* C28 witness: a graph has been built in which one task declares the same
\* dependency twice and stands twice in that task's dependents, beside a
\* task without dependents.
C28_Witness ==
  /\ dag.status = "returned"
  /\ \E d, n \in DOMAIN dag.nodes :
       /\ Count(TaskById(tasks, n).dependencies, d) = 2
       /\ dag.nodes[d].dependents = <<n, n>>
       /\ dag.nodes[n].dependents = <<>>

\* The earliest finish of a task: earliest start + duration.
EarliestFinish(ts, id) == EarliestStart(ts, id) + Hours(ts, id)

\* The first element of the list s, all of whose elements are tasks, with
\* the greatest earliest finish.
FirstGreatest(ts, s) ==
  s[CHOOSE i \in 1..Len(s) :
      /\ \A j \in 1..Len(s) :
           EarliestFinish(ts, s[j]) <= EarliestFinish(ts, s[i])
      /\ \A j \in 1..(i - 1) :
           EarliestFinish(ts, s[j]) < EarliestFinish(ts, s[i])]

\* C29 (as claimed): a non-empty path ends in the node with the greatest
\* earliest finish, the first in task order on a tie; every other element
\* is the dependency of its successor with the greatest earliest finish,
\* the first declared on a tie; the first element has no dependencies; and
\* no task occurs twice.
C29_PathDetermined ==
  (PathFound /\ critical.path # <<>>) =>
    LET path == critical.path
        n == Len(path)
    IN /\ path[n] = FirstGreatest(tasks, NodeOrder(tasks))
       /\ \A k \in 1..(n - 1) :
            LET deps == TaskById(tasks, path[k + 1]).dependencies IN
            deps # <<>> /\ path[k] = FirstGreatest(tasks, deps)
       /\ TaskById(tasks, path[1]).dependencies = <<>>
       /\ \A k, l \in 1..n : k # l => path[k] # path[l]

\* C30: identifyCriticalPath leaves the node map (every node's
\* dependencies, dependents and level), the node order, the leveled
\* grouping and the tasks as they were and writes only dag.criticalPath,
\* which then is the returned path, root first; a second call on the same
\* DAG returns the same path.
C30_OnlyCriticalPathWritten ==
  /\ [][dag.status = "returned" =>
          /\ dag'.status = dag.status
          /\ dag'.nodes = dag.nodes
          /\ dag'.order = dag.order
          /\ dag'.levels = dag.levels
          /\ tasks' = tasks
          /\ dag'.criticalPath = critical'.path]_vars
  /\ [](PathFound =>
          /\ dag.criticalPath = critical.path
          /\ tasks = given
          /\ IsChain(tasks, critical.path)
          /\ critical.path # <<>> => DepSet(tasks, critical.path[1]) = {})
  /\ [](calls = 2 => critical.path = previous.path)

\* C30 witness: the second call has returned, on a DAG of two levels or
\* more, the path of three tasks the first call returned.
C30_Witness ==
  /\ calls = 2 /\ PathFound
  /\ Len(critical.path) = 3 /\ previous.path = critical.path
  /\ dag.criticalPath = critical.path
  /\ Len(dag.levels) >= 2

====
